---- MODULE Spec2Model ----
(***************************************************************************)
(* A model of the data-acquisition and analytics code of LIFE_WITH_AI:     *)
(*   utils/data_loader.py   load_yfinance_data                             *)
(*   utils/utils_yfetch.py  fetch_yfinance_data                            *)
(*   utils/yfetch.py        fetch_yfinance_data                            *)
(*   utils/calculations.py, utils_indicators.py, utils_strategies.py       *)
(*   utils/data_loader.py   load_file_data                                 *)
(*   utils/utils_predictions.py  predict_prices                            *)
(*   app.py                 st.session_state under the data input page     *)
(*   @st.cache_data(ttl=60) around the two cached fetch functions          *)
(* Each fetch call is a small state machine whose steps are cut at the     *)
(* network requests and at the handler of the retry loop.                  *)
(***************************************************************************)
EXTENDS Integers, Sequences, FiniteSets, TLC

VARIABLES
    fn,          \* which fetch function is being called
    period,      \* argument period (NoPeriod models None)
    start_date,  \* argument start_date (0 models None)
    end_date,    \* argument end_date (0 models None)
    retries,     \* argument retries
    delay,       \* argument delay
    pc,          \* position inside the call
    attempt,     \* loop variable of "for attempt in range(1, retries + 1)"
    yf_period,   \* yfetch.py local yf_period ("" models None / unset)
    interval,    \* yfetch.py parameter interval, overwritten from period_map
    data,        \* local variable data / df
    exc,         \* the exception the handler of the retry loop is handling
    reqs,        \* log of the network requests issued, in order
    sleeps,      \* log of the time.sleep durations, in order
    outcome,     \* how the call ended
    pl_in,       \* calculations.py: the argument data of calculate_pl
    pl_out,      \* calculations.py: the table calculate_pl returned
    ind_in,      \* utils_indicators.py: the close column of the argument
    ind_out,     \* utils_indicators.py: the table calculate_indicators returned
    sig_in,      \* utils_strategies.py: the argument data of apply_strategies
    sig_once,    \* apply_strategies(sig_in)
    sig_twice,   \* apply_strategies(apply_strategies(sig_in))
    file_in,     \* data_loader.py: the argument uploaded_file of load_file_data
    file_out,    \* data_loader.py: how load_file_data ended
    pred_in,     \* utils_predictions.py: the arguments of predict_prices
    pred_out,    \* utils_predictions.py: how predict_prices ended
    session,     \* app.py: st.session_state (data, processed_data, symbol, period)
    before,      \* app.py: st.session_state when the last request began
    last,        \* app.py: the last request and how it went
    cache,       \* st.cache_data: the entries of the fetch cache
    clock,       \* seconds elapsed
    calls        \* number of calls made through the cache

fvars == <<fn, period, start_date, end_date, retries, delay, pc, attempt,
           yf_period, interval, data, exc, reqs, sleeps, outcome>>

avars == <<pl_in, pl_out, ind_in, ind_out, sig_in, sig_once, sig_twice>>

(* The upload, the forecast and the session of app.py *)
xvars == <<file_in, file_out, pred_in, pred_out, session, before, last>>

vars == <<fvars, avars, xvars, cache, clock, calls>>

----------------------------------------------------------------------------
(* Bounds of the model *)

MaxRetries == 3
MaxDate == 3
MaxRows == 3
MaxDay == 2

(* Calendar dates are 1..MaxDate; datetime.now() is Now, so MaxDate is in   *)
(* the future.  0 stands for None.                                         *)
Dates == 1..MaxDate
OptDates == {0} \cup Dates
Now == MaxDate - 1

Delays == {2, 3}

Loader == "data_loader.load_yfinance_data"
Utils == "utils_yfetch.fetch_yfinance_data"
Yfetch == "yfetch.fetch_yfinance_data"
Fns == {Loader, Utils, Yfetch}

NoPeriod == "<None>"

(* The enumerated period tokens of the specification, and a few others.    *)
SpecTokens == {"1D", "5D", "15D", "30D", "1M", "3M", "6M", "YTD", "1Y", "2Y",
               "3Y", "5Y", "MAX", "Custom", "real-time"}
OtherTokens == {"1d", "5d", "15d", "30d", "1mo", "3mo", "6mo", "ytd", "1y",
                "2y", "3y", "5y", "max", "10y", "custom", "bogus", NoPeriod}
Tokens == SpecTokens \cup OtherTokens

----------------------------------------------------------------------------
(* Tables *)

RequiredColumns == {"Open", "High", "Low", "Close", "Volume"}

(* str.lower() on the column names that occur. *)
Lower(c) ==
    CASE c = "Open" -> "open"
      [] c = "High" -> "high"
      [] c = "Low" -> "low"
      [] c = "Close" -> "close"
      [] c = "Volume" -> "volume"
      [] c = "Adj Close" -> "adj close"
      [] OTHER -> c

LowerAll(cols) == {Lower(c) : c \in cols}

(* Column sets the upstream source may deliver (the top level of the       *)
(* header when it is a MultiIndex, which line 71 of yfetch.py keeps).       *)
UpstreamColumnSets ==
    { RequiredColumns \cup {"Adj Close"},
      RequiredColumns,
      RequiredColumns \ {"Volume"},
      (RequiredColumns \ {"Volume"}) \cup {"volume"} }

SeqsUpTo(S, n) == UNION {[1..k -> S] : k \in 1..n}

(* A table: rows in order, each with its index date d and the position id  *)
(* it had in the upstream answer; tz: the index carries a timezone.        *)
MkRows(ds) == [i \in 1..Len(ds) |-> [d |-> ds[i], id |-> i]]

RawTables ==
    { [rows |-> MkRows(ds), tz |-> z, cols |-> cs] :
        ds \in SeqsUpTo(1..MaxDay, MaxRows), z \in BOOLEAN,
        cs \in UpstreamColumnSets }

(* The well-formed answers used where the subject is the retry loop: one   *)
(* row, all columns, no timezone; they differ by their date.               *)
PlainTables ==
    { [rows |-> MkRows(<<d>>), tz |-> FALSE,
       cols |-> RequiredColumns \cup {"Adj Close"}] : d \in 1..MaxDay }

(* pd.DataFrame() *)
EmptyFrame == [rows |-> <<>>, tz |-> FALSE, cols |-> {}]

IsEmpty(t) == Len(t.rows) = 0

----------------------------------------------------------------------------
(* Errors.  kind is the condition that was raised first; wrapped tells that *)
(* the handler of the retry loop re-raised it inside its own message; names *)
(* are the things the final message mentions.                              *)

NoErr == [kind |-> "none", wrapped |-> FALSE, names |-> {}]
Err(k, ns) == [kind |-> k, wrapped |-> FALSE, names |-> ns]
Wrap(e, ns) == [kind |-> e.kind, wrapped |-> TRUE, names |-> e.names \cup ns]

Pending == [kind |-> "pending", table |-> EmptyFrame, err |-> NoErr]
Returned(t) == [kind |-> "return", table |-> t, err |-> NoErr]
Raised(e) == [kind |-> "raise", table |-> EmptyFrame, err |-> e]

(* What one network request can answer: an exception, an empty table or a   *)
(* table with rows.                                                        *)
Responses(T) ==
    { [kind |-> "raise", table |-> EmptyFrame],
      [kind |-> "empty", table |-> EmptyFrame] }
    \cup { [kind |-> "data", table |-> t] : t \in T }

(* One entry of the request log: which request of the code it was, the      *)
(* period ("range" for start/end) and interval asked for, the attempt it    *)
(* belongs to and the kind of answer.                                      *)
Req(k, per, ivl, r) ==
    [kind |-> k, per |-> per, ivl |-> ivl, att |-> attempt, res |-> r.kind]

----------------------------------------------------------------------------
(* Period maps *)

(* data_loader.py period_map *)
LoaderPeriodMap ==
    [p \in {"1D", "5D", "15D", "30D", "1M", "3M", "6M", "YTD", "1Y", "2Y",
            "3Y", "5Y", "MAX"} |->
        CASE p = "1D" -> "1d" [] p = "5D" -> "5d" [] p = "15D" -> "15d"
          [] p = "30D" -> "1mo" [] p = "1M" -> "1mo" [] p = "3M" -> "3mo"
          [] p = "6M" -> "6mo" [] p = "YTD" -> "ytd" [] p = "1Y" -> "1y"
          [] p = "2Y" -> "2y" [] p = "3Y" -> "3y" [] p = "5Y" -> "5y"
          [] p = "MAX" -> "max"]

(* utils_yfetch.py period_map: every key maps to a (start, end) range. *)
UtilsPeriodKeys ==
    {"1D", "5D", "15D", "30D", "1M", "3M", "6M", "YTD", "1Y", "2Y", "3Y",
     "5Y", "MAX"}

(* yfetch.py period_map: token -> (yf_period, yf_interval) *)
YfPeriodMap ==
    [p \in {"real-time", "1D", "1d", "5D", "5d", "15D", "15d", "30D", "30d",
            "1M", "1mo", "3M", "3mo", "6M", "6mo", "YTD", "ytd", "1Y", "1y",
            "2Y", "2y", "3Y", "3y", "5Y", "5y", "10y", "MAX", "max"} |->
        CASE p = "real-time" -> <<"1d", "1m">>
          [] p \in {"1D", "1d"} -> <<"1d", "1d">>
          [] p \in {"5D", "5d"} -> <<"5d", "1d">>
          [] p \in {"15D", "15d"} -> <<"15d", "1d">>
          [] p \in {"30D", "30d"} -> <<"30d", "1d">>
          [] p \in {"1M", "1mo"} -> <<"1mo", "1d">>
          [] p \in {"3M", "3mo"} -> <<"3mo", "1d">>
          [] p \in {"6M", "6mo"} -> <<"6mo", "1d">>
          [] p \in {"YTD", "ytd"} -> <<"ytd", "1d">>
          [] p \in {"1Y", "1y"} -> <<"1y", "1d">>
          [] p \in {"2Y", "2y"} -> <<"2y", "1d">>
          [] p \in {"3Y", "3y"} -> <<"3y", "1d">>
          [] p \in {"5Y", "5y"} -> <<"5y", "1d">>
          [] p = "10y" -> <<"10y", "1d">>
          [] p \in {"MAX", "max"} -> <<"max", "1d">>]

(* Python truthiness of the arguments *)
Truthy(p) == p # NoPeriod
BothDates == start_date # 0 /\ end_date # 0

(* yfetch.py: the periods for which the 1y fallback is skipped *)
YfNoFallback1y == {"1D", "1d", "1M", "1mo", "real-time"}

----------------------------------------------------------------------------
(* Normalization *)

(* data[[col for col in required_columns if col in data.columns]] followed  *)
(* by data.columns = [col.lower() for col in data.columns]                 *)
SelectColumns(cols) == LowerAll({c \in RequiredColumns : c \in cols})

(* data_loader.py and utils_yfetch.py return the rows as they came. *)
SelectAndLower(t) == [t EXCEPT !.cols = SelectColumns(t.cols)]

IsMonotonicIncreasing(rows) ==
    \A i \in 1..(Len(rows) - 1) : rows[i].d <= rows[i + 1].d

HasDuplicates(rows) ==
    \E i, j \in 1..Len(rows) : i < j /\ rows[i].d = rows[j].d

Injections(n) == {p \in [1..n -> 1..n] : \A i, j \in 1..n : p[i] = p[j] => i = j}

(* data.sort_index(): any arrangement of the rows by ascending date; the    *)
(* default sort kind is not stable, so rows of equal date may come in any   *)
(* order.                                                                  *)
SortIndex(rows) ==
    {s \in {[i \in 1..Len(rows) |-> rows[p[i]]] : p \in Injections(Len(rows))} :
        IsMonotonicIncreasing(s)}

(* data[~data.index.duplicated(keep='first')] *)
DropDuplicates(rows) ==
    SelectSeq(rows, LAMBDA r :
        ~ \E i \in 1..Len(rows) :
            /\ rows[i].d = r.d
            /\ \E j \in 1..Len(rows) : rows[j] = r /\ i < j)

(* yfetch.py lines 69-88, given the outcome of the sort. *)
YfNormalizeSorted(t, sorted) ==
    LET r1 == IF IsMonotonicIncreasing(t.rows) THEN t.rows ELSE sorted
        r2 == IF HasDuplicates(r1) THEN DropDuplicates(r1) ELSE r1
    IN  [rows |-> r2, tz |-> FALSE, cols |-> SelectColumns(t.cols)]

YfNormalizeResults(t) == {YfNormalizeSorted(t, s) : s \in SortIndex(t.rows)}

----------------------------------------------------------------------------
(* The fetch call *)

(* No analytics call is under way. *)
AnalyticsIdle ==
    /\ pl_in = <<>> /\ pl_out = <<>>
    /\ ind_in = <<>> /\ ind_out = <<>>
    /\ sig_in = <<>> /\ sig_once = <<>> /\ sig_twice = <<>>

(* No upload, no forecast and no request of app.py is under way. *)
FileIdle == file_in = <<>> /\ file_out = Pending
PredictIdle == pred_in = <<>> /\ pred_out = Pending
AppIdle == session = <<>> /\ before = <<>> /\ last = <<>>
ExtrasIdle == FileIdle /\ PredictIdle /\ AppIdle

(* @st.cache_data(ttl=60) on load_yfinance_data and on yfetch's             *)
(* fetch_yfinance_data; utils_yfetch.py has no decorator.  An entry is      *)
(* keyed by the function and its arguments (the symbol is fixed here).      *)
Ttl == 60
CachedFns == {Loader, Yfetch}

CacheKey ==
    [fn |-> fn, period |-> period, start_date |-> start_date,
     end_date |-> end_date, retries |-> retries, delay |-> delay]

(* The wrapper stores the value of a call that returns; an exception        *)
(* propagates and nothing is stored.                                       *)
CacheWrite(c, o) ==
    IF fn \in CachedFns /\ o.kind = "return"
      THEN {e \in c : e.key # CacheKey}
             \cup {[key |-> CacheKey, value |-> o.table, at |-> clock]}
      ELSE c

CacheEmpty == cache = {} /\ clock = 0 /\ calls = 0

Init ==
    /\ AnalyticsIdle
    /\ ExtrasIdle
    /\ CacheEmpty
    /\ fn \in Fns
    /\ period \in Tokens
    /\ start_date \in OptDates
    /\ end_date \in OptDates
    /\ retries \in 1..MaxRetries
    /\ delay \in Delays
    /\ pc = "enter"
    /\ attempt = 1
    /\ yf_period = ""
    /\ interval = "1d"
    /\ data = EmptyFrame
    /\ exc = NoErr
    /\ reqs = <<>>
    /\ sleeps = <<>>
    /\ outcome = Pending

(* A backoff whose exponent is off by one. *)
BackoffOffByOne(d, a) == d * (2 ^ a)

(* time.sleep(delay * (2 ** (attempt - 1))) *)
Backoff(d, a) == d * (2 ^ (a - 1))

(* The statements before the retry loop. *)

(* data_loader.py: nothing precedes the loop. *)
LoaderEnter ==
    /\ pc = "enter" /\ fn = Loader
    /\ pc' = "try"
    /\ UNCHANGED <<avars, xvars, clock, calls>>
    /\ UNCHANGED <<fn, period, start_date, end_date, retries, delay, attempt,
                   yf_period, interval, data, exc, reqs, sleeps, outcome>>
    /\ cache' = CacheWrite(cache, outcome')

(* A period check that forgets that an explicit date range overrides the   *)
(* period.                                                                 *)
UtilsInvalidPeriodIgnoringDates ==
    Truthy(period) /\ period \notin UtilsPeriodKeys

(* utils_yfetch.py lines 16-35 *)
UtilsInvalidPeriod ==
    Truthy(period) /\ ~BothDates /\ period \notin UtilsPeriodKeys

UtilsEnter ==
    /\ pc = "enter" /\ fn = Utils
    /\ IF UtilsInvalidPeriod
         THEN /\ outcome' = Raised(Err("InvalidPeriod", {"period"}))
              /\ pc' = "done"
         ELSE /\ outcome' = outcome
              /\ pc' = "try"
    /\ UNCHANGED <<avars, xvars, clock, calls>>
    /\ UNCHANGED <<fn, period, start_date, end_date, retries, delay, attempt,
                   yf_period, interval, data, exc, reqs, sleeps>>
    /\ cache' = CacheWrite(cache, outcome')

(* yfetch.py lines 18-46 *)
YfMapped == Truthy(period) /\ period \in DOMAIN YfPeriodMap /\ ~BothDates
YfCustom == period = "Custom" \/ BothDates
YfInvalidPeriod == ~YfMapped /\ ~YfCustom

YfEnter ==
    /\ pc = "enter" /\ fn = Yfetch
    /\ IF YfMapped
         THEN /\ yf_period' = YfPeriodMap[period][1]
              /\ interval' = YfPeriodMap[period][2]
              /\ outcome' = outcome
              /\ pc' = "try"
         ELSE IF YfCustom
         THEN /\ yf_period' = ""
              /\ interval' = interval
              /\ outcome' = outcome
              /\ pc' = "try"
         ELSE /\ outcome' = Raised(Err("InvalidPeriod", {"period"}))
              /\ pc' = "done"
              /\ UNCHANGED <<yf_period, interval>>
    /\ UNCHANGED <<avars, xvars, clock, calls>>
    /\ UNCHANGED <<fn, period, start_date, end_date, retries, delay, attempt,
                   data, exc, reqs, sleeps>>
    /\ cache' = CacheWrite(cache, outcome')

(* data_loader.py lines 18-41: what the body of try raises before any       *)
(* request.  Comparing None with >= raises TypeError.                      *)
LoaderPrecheck ==
    IF period = "Custom"
      THEN IF start_date = 0 \/ end_date = 0 THEN Err("TypeError", {})
           ELSE IF start_date >= end_date THEN Err("InvalidRange", {})
           ELSE IF end_date > Now THEN Err("InvalidRange", {})
           ELSE NoErr
    ELSE IF period = "YTD" THEN NoErr
    ELSE IF period \notin DOMAIN LoaderPeriodMap
      THEN Err("InvalidPeriod", {"period"})
    ELSE NoErr

LoaderRequestPeriod ==
    IF period \in {"Custom", "YTD"} THEN "range" ELSE LoaderPeriodMap[period]

(* data_loader.py lines 18-43, 63-69: one pass through the body of try up   *)
(* to the first request and what follows a non-empty answer.               *)
LoaderAttempt(T) ==
    /\ pc = "try" /\ fn = Loader
    /\ IF LoaderPrecheck # NoErr
         THEN /\ exc' = LoaderPrecheck
              /\ pc' = "except"
              /\ UNCHANGED <<reqs, data, outcome>>
         ELSE \E r \in Responses(T) :
              /\ reqs' = Append(reqs, Req("primary", LoaderRequestPeriod, "1d", r))
              /\ data' = r.table
              /\ IF r.kind = "raise"
                   THEN exc' = Err("Network", {}) /\ pc' = "except"
                        /\ outcome' = outcome
                 ELSE IF r.kind = "empty"
                   THEN exc' = exc /\ pc' = "probe" /\ outcome' = outcome
                 ELSE exc' = exc /\ pc' = "done"
                      /\ outcome' = Returned(SelectAndLower(r.table))
    /\ UNCHANGED <<avars, xvars, clock, calls>>
    /\ UNCHANGED <<fn, period, start_date, end_date, retries, delay, attempt,
                   yf_period, interval, sleeps>>
    /\ cache' = CacheWrite(cache, outcome')

(* data_loader.py lines 44-61: the probe of the maximal history.  The error *)
(* that carries the available range is raised inside the inner try and     *)
(* caught by its own "except Exception"; the error of lines 58-61 follows.  *)
LoaderProbe(T) ==
    /\ pc = "probe" /\ fn = Loader
    /\ \E r \in Responses(T) :
         reqs' = Append(reqs, Req("probe", "max", "1d", r))
    /\ exc' = Err("NoData", {"symbol", "period"})
    /\ pc' = "except"
    /\ UNCHANGED <<avars, xvars, clock, calls>>
    /\ UNCHANGED <<fn, period, start_date, end_date, retries, delay, attempt,
                   yf_period, interval, data, sleeps, outcome>>
    /\ cache' = CacheWrite(cache, outcome')

(* utils_yfetch.py lines 37-53 *)
UtilsAttempt(T) ==
    /\ pc = "try" /\ fn = Utils
    /\ \E r \in Responses(T) :
         /\ reqs' = Append(reqs, Req("primary", "range", "1d", r))
         /\ data' = r.table
         /\ IF r.kind = "raise"
              THEN exc' = Err("Network", {}) /\ pc' = "except"
                   /\ outcome' = outcome
            ELSE IF r.kind = "empty"
              THEN exc' = Err("NoData", {"symbol", "range"}) /\ pc' = "except"
                   /\ outcome' = outcome
            ELSE exc' = exc /\ pc' = "done"
                 /\ outcome' = Returned(SelectAndLower(r.table))
    /\ UNCHANGED <<avars, xvars, clock, calls>>
    /\ UNCHANGED <<fn, period, start_date, end_date, retries, delay, attempt,
                   yf_period, interval, sleeps>>
    /\ cache' = CacheWrite(cache, outcome')

YfRequestPeriod == IF yf_period # "" THEN yf_period ELSE "range"

(* yfetch.py: where an empty answer to the request of lines 50-55 leads *)
YfAfterEmptyPrimary == IF period \notin YfNoFallback1y THEN "fb1y" ELSE "fb1mo"

(* yfetch.py lines 49-59 *)
YfAttempt(T) ==
    /\ pc = "try" /\ fn = Yfetch
    /\ \E r \in Responses(T) :
         /\ reqs' = Append(reqs, Req("primary", YfRequestPeriod, interval, r))
         /\ data' = r.table
         /\ IF r.kind = "raise"
              THEN exc' = Err("Network", {}) /\ pc' = "except"
            ELSE IF r.kind = "empty"
              THEN exc' = exc /\ pc' = YfAfterEmptyPrimary
            ELSE exc' = exc /\ pc' = "normalize"
    /\ UNCHANGED <<avars, xvars, clock, calls>>
    /\ UNCHANGED <<fn, period, start_date, end_date, retries, delay, attempt,
                   yf_period, interval, sleeps, outcome>>
    /\ cache' = CacheWrite(cache, outcome')

(* yfetch.py lines 60-62 *)
YfFallback1y(T) ==
    /\ pc = "fb1y" /\ fn = Yfetch
    /\ \E r \in Responses(T) :
         /\ reqs' = Append(reqs, Req("fb1y", "1y", "1d", r))
         /\ data' = r.table
         /\ IF r.kind = "raise"
              THEN exc' = Err("Network", {}) /\ pc' = "except"
            ELSE IF r.kind = "empty"
              THEN exc' = exc /\ pc' = "fb1mo"
            ELSE exc' = exc /\ pc' = "normalize"
    /\ UNCHANGED <<avars, xvars, clock, calls>>
    /\ UNCHANGED <<fn, period, start_date, end_date, retries, delay, attempt,
                   yf_period, interval, sleeps, outcome>>
    /\ cache' = CacheWrite(cache, outcome')

(* yfetch.py lines 62-67 *)
YfFallback1mo(T) ==
    /\ pc = "fb1mo" /\ fn = Yfetch
    /\ \E r \in Responses(T) :
         /\ reqs' = Append(reqs, Req("fb1mo", "1mo", "1d", r))
         /\ data' = r.table
         /\ IF r.kind = "raise"
              THEN exc' = Err("Network", {}) /\ pc' = "except"
                   /\ outcome' = outcome
            ELSE IF r.kind = "empty"
              THEN exc' = exc /\ pc' = "done"
                   /\ outcome' = Returned(EmptyFrame)
            ELSE exc' = exc /\ pc' = "normalize" /\ outcome' = outcome
    /\ UNCHANGED <<avars, xvars, clock, calls>>
    /\ UNCHANGED <<fn, period, start_date, end_date, retries, delay, attempt,
                   yf_period, interval, sleeps>>
    /\ cache' = CacheWrite(cache, outcome')

(* yfetch.py lines 69-88 *)
YfNormalize ==
    /\ pc = "normalize" /\ fn = Yfetch
    /\ \E t \in YfNormalizeResults(data) : outcome' = Returned(t)
    /\ pc' = "done"
    /\ UNCHANGED <<avars, xvars, clock, calls>>
    /\ UNCHANGED <<fn, period, start_date, end_date, retries, delay, attempt,
                   yf_period, interval, data, exc, reqs, sleeps>>
    /\ cache' = CacheWrite(cache, outcome')

(* How each function ends when the last attempt has failed. *)
Exhausted(f, e) ==
    IF f = Loader THEN Raised(Wrap(e, {"symbol", "period"}))
    ELSE IF f = Utils THEN Raised(Wrap(e, {"symbol"}))
    ELSE Returned(EmptyFrame)

(* The handler "except Exception as e" of the retry loop, the same in the   *)
(* three functions: data_loader.py 71-79, utils_yfetch.py 55-59,           *)
(* yfetch.py 90-95.                                                        *)
Except ==
    /\ pc = "except"
    /\ IF attempt = retries
         THEN /\ outcome' = Exhausted(fn, exc)
              /\ pc' = "done"
              /\ UNCHANGED <<attempt, sleeps>>
         ELSE /\ sleeps' = Append(sleeps, Backoff(delay, attempt))
              /\ attempt' = attempt + 1
              /\ pc' = "try"
              /\ outcome' = outcome
    /\ exc' = NoErr
    /\ UNCHANGED <<avars, xvars, clock, calls>>
    /\ UNCHANGED <<fn, period, start_date, end_date, retries, delay,
                   yf_period, interval, data, reqs>>
    /\ cache' = CacheWrite(cache, outcome')

Next ==
    \/ LoaderEnter
    \/ UtilsEnter
    \/ YfEnter
    \/ LoaderAttempt(PlainTables)
    \/ LoaderProbe(PlainTables)
    \/ UtilsAttempt(PlainTables)
    \/ YfAttempt(PlainTables)
    \/ YfFallback1y(PlainTables)
    \/ YfFallback1mo(PlainTables)
    \/ YfNormalize
    \/ Except

Spec == Init /\ [][Next]_vars

(* The same calls against a source that can deliver every raw table, for    *)
(* one representative period; the subject is what is done to the table.    *)
InitNorm ==
    /\ AnalyticsIdle
    /\ ExtrasIdle
    /\ CacheEmpty
    /\ fn \in Fns
    /\ period = "1Y"
    /\ start_date = 0
    /\ end_date = 0
    /\ retries \in 1..2
    /\ delay \in Delays
    /\ pc = "enter"
    /\ attempt = 1
    /\ yf_period = ""
    /\ interval = "1d"
    /\ data = EmptyFrame
    /\ exc = NoErr
    /\ reqs = <<>>
    /\ sleeps = <<>>
    /\ outcome = Pending

NextNorm ==
    \/ LoaderEnter
    \/ UtilsEnter
    \/ YfEnter
    \/ LoaderAttempt(RawTables)
    \/ LoaderProbe(RawTables)
    \/ UtilsAttempt(RawTables)
    \/ YfAttempt(RawTables)
    \/ YfFallback1y(RawTables)
    \/ YfFallback1mo(RawTables)
    \/ YfNormalize
    \/ Except

SpecNorm == InitNorm /\ [][NextNorm]_vars

----------------------------------------------------------------------------
(* calculations.py: calculate_pl *)

MaxPLRows == 6

RECURSIVE Sum(_)
Sum(q) == IF q = <<>> THEN 0 ELSE Head(q) + Sum(Tail(q))

Squares(q) == [i \in 1..Len(q) |-> q[i] * q[i]]

(* Rows of the argument: open > 0, close, volume.  Prices are chosen so     *)
(* that % P/L is 0, 0.33 (rounded down from 1/3) and 3.12 (the tie 3.125    *)
(* rounded to even).                                                       *)
PLRows ==
    { [open |-> 100, close |-> 100, volume |-> 10],
      [open |-> 300, close |-> 301, volume |-> 10],
      [open |-> 32, close |-> 33, volume |-> 10],
      [open |-> 100, close |-> 100, volume |-> 50] }

(* round(n / d) for d > 0, ties to even: what numpy's round does to a tie   *)
(* that is representable.                                                  *)
RoundHalfEven(n, d) ==
    LET q == n \div d
        r == n - q * d
    IN  IF 2 * r < d THEN q
        ELSE IF 2 * r > d THEN q + 1
        ELSE IF q % 2 = 0 THEN q ELSE q + 1

(* (pl_data['P/L Value'] / pl_data['open'] * 100).round(2), in hundredths   *)
(* of a percent                                                            *)
PctPL(open, pl) == RoundHalfEven(pl * 10000, open)

(* (col - col.mean()) / col.std() at row i.  With n rows, sum S and sum of  *)
(* squares Q the value is dev/n divided by sqrt(ss / (n*(n-1))), where      *)
(* dev = n*col[i] - S and ss = n*Q - S*S; it is kept as these integers.     *)
(* std() is NaN for one row (ddof = 1), and 0/0 is NaN when all rows agree. *)
ZScore(col, i) ==
    LET n == Len(col)
        S == Sum(col)
        Q == Sum(Squares(col))
        ss == n * Q - S * S
    IN  [nan |-> (n < 2 \/ ss = 0), dev |-> n * col[i] - S, ss |-> ss, n |-> n]

(* z.abs() > 2; a comparison with NaN is False. *)
AbsGt2(z) == ~z.nan /\ z.dev * z.dev * (z.n - 1) > 4 * z.n * z.ss

(* A flag that requires both z-scores to be large. *)
AnomalyFlagBoth(zp, zv) == AbsGt2(zp) /\ AbsGt2(zv)

(* (Z-Score P/L).abs() > 2 | (Z-Score Volume).abs() > 2 *)
AnomalyFlag(zp, zv) == AbsGt2(zp) \/ AbsGt2(zv)

CalculatePl(d) ==
    LET pl == [i \in 1..Len(d) |-> d[i].close - d[i].open]
        pct == [i \in 1..Len(d) |-> PctPL(d[i].open, pl[i])]
        vol == [i \in 1..Len(d) |-> d[i].volume]
    IN  [i \in 1..Len(d) |->
            [open |-> d[i].open, close |-> d[i].close, volume |-> d[i].volume,
             pl |-> pl[i], pct |-> pct[i],
             zpl |-> ZScore(pct, i), zvol |-> ZScore(vol, i),
             flag |-> AnomalyFlag(ZScore(pct, i), ZScore(vol, i))]]

FetchIdle ==
    /\ fn = Loader /\ period = NoPeriod /\ start_date = 0 /\ end_date = 0
    /\ retries = 1 /\ delay = 2 /\ pc = "idle" /\ attempt = 1
    /\ yf_period = "" /\ interval = "1d" /\ data = EmptyFrame /\ exc = NoErr
    /\ reqs = <<>> /\ sleeps = <<>> /\ outcome = Pending

InitPL ==
    /\ FetchIdle
    /\ ExtrasIdle
    /\ CacheEmpty
    /\ pl_in \in SeqsUpTo(PLRows, MaxPLRows)
    /\ pl_out = <<>>
    /\ ind_in = <<>> /\ ind_out = <<>>
    /\ sig_in = <<>> /\ sig_once = <<>> /\ sig_twice = <<>>

CalculatePlCall ==
    /\ pl_in # <<>> /\ pl_out = <<>>
    /\ pl_out' = CalculatePl(pl_in)
    /\ UNCHANGED <<fvars, xvars, cache, clock, calls, pl_in, ind_in, ind_out, sig_in, sig_once, sig_twice>>

NextPL == CalculatePlCall

SpecPL == InitPL /\ [][NextPL]_vars

----------------------------------------------------------------------------
(* utils_indicators.py: calculate_indicators *)

MaxIndRows == 21

SmaWindow == 20
RsiWindow == 14

(* Close series: a base price with up to two steps, of -1, 0 or +2, at rows *)
(* c1 < c2.                                                                *)
StepSeries(n, c1, c2, d1, d2) ==
    [i \in 1..n |->
        100 + (IF i >= c1 THEN d1 ELSE 0) + (IF i >= c2 THEN d2 ELSE 0)]

CloseSeries ==
    { StepSeries(n, c1, c2, d1, d2) :
        n \in 1..MaxIndRows, c1 \in 2..MaxIndRows, c2 \in 3..MaxIndRows,
        d1 \in {-1, 0, 2}, d2 \in {-1, 0, 2} }

(* A value that may be null (NaN): num / den when not null. *)
Null == [null |-> TRUE, num |-> 0, den |-> 1]
Ratio(n, d) == [null |-> FALSE, num |-> n, den |-> d]

WindowSum(col, w, i) == Sum(SubSeq(col, i - w + 1, i))

(* A rolling mean that is computed from the rows available so far. *)
RollingMeanPartial(col, w, i) ==
    IF i < w THEN Ratio(Sum(SubSeq(col, 1, i)), i)
    ELSE Ratio(WindowSum(col, w, i), w)

(* col.rolling(window=w).mean() at row i: null until w rows are there. *)
RollingMean(col, w, i) ==
    IF i < w THEN Null ELSE Ratio(WindowSum(col, w, i), w)

(* delta = close.diff(); delta.where(delta > 0, 0): row 1, whose delta is   *)
(* NaN, gets 0.                                                            *)
GainColumn(close) ==
    [i \in 1..Len(close) |->
        IF i > 1 /\ close[i] - close[i - 1] > 0 THEN close[i] - close[i - 1]
        ELSE 0]

(* -delta.where(delta < 0, 0) *)
LossColumn(close) ==
    [i \in 1..Len(close) |->
        IF i > 1 /\ close[i] - close[i - 1] < 0 THEN close[i - 1] - close[i]
        ELSE 0]

(* rs = gain / loss; 100 - (100 / (1 + rs)).  gain and loss are means over  *)
(* the same window.  x/0 is inf for x > 0, which gives 100; 0/0 is NaN,     *)
(* which stays NaN; otherwise the value is 100 * gain / (gain + loss).      *)
Rsi(gain, loss) ==
    IF gain.null \/ loss.null THEN Null
    ELSE IF loss.num = 0
      THEN IF gain.num = 0 THEN Null ELSE Ratio(100, 1)
    ELSE Ratio(100 * gain.num, gain.num + loss.num)

(* col.ewm(span=s, adjust=False).mean() has min_periods=0: its value at     *)
(* row i is null only while no non-null observation has been seen.  The     *)
(* exponential means are represented by whether they are null.             *)
EwmMeanIsNull(nulls, i) == \A j \in 1..i : nulls[j]

(* The closes are numbers. *)
CloseIsNull(close) == [i \in 1..Len(close) |-> FALSE]

(* MACD = ema12 - ema26, lines 18-20 *)
MacdIsNull(close) ==
    [i \in 1..Len(close) |->
        EwmMeanIsNull(CloseIsNull(close), i) \/ EwmMeanIsNull(CloseIsNull(close), i)]

(* MACD_Signal = MACD.ewm(span=9, adjust=False).mean(), line 21 *)
MacdSignalIsNull(close) ==
    [i \in 1..Len(close) |-> EwmMeanIsNull(MacdIsNull(close), i)]

CalculateIndicators(close) ==
    [i \in 1..Len(close) |->
        [close |-> close[i],
         sma |-> RollingMean(close, SmaWindow, i),
         rsi |-> Rsi(RollingMean(GainColumn(close), RsiWindow, i),
                     RollingMean(LossColumn(close), RsiWindow, i)),
         macd_null |-> MacdIsNull(close)[i],
         macd_signal_null |-> MacdSignalIsNull(close)[i]]]

InitInd ==
    /\ FetchIdle
    /\ ExtrasIdle
    /\ CacheEmpty
    /\ ind_in \in CloseSeries
    /\ ind_out = <<>>
    /\ pl_in = <<>> /\ pl_out = <<>>
    /\ sig_in = <<>> /\ sig_once = <<>> /\ sig_twice = <<>>

CalculateIndicatorsCall ==
    /\ ind_in # <<>> /\ ind_out = <<>>
    /\ ind_out' = CalculateIndicators(ind_in)
    /\ UNCHANGED <<fvars, xvars, cache, clock, calls, pl_in, pl_out, ind_in, sig_in, sig_once, sig_twice>>

NextInd == CalculateIndicatorsCall

SpecInd == InitInd /\ [][NextInd]_vars

----------------------------------------------------------------------------
(* utils_strategies.py: apply_strategies *)

MaxSigRows == 2

(* Rows of an indicator table: close >= 0, SMA_20 and RSI_14 null or not;   *)
(* the signal columns are absent before the first call.                    *)
SigRows ==
    { [close |-> c, sma |-> m, rsi |-> r, mr |-> "absent", mom |-> "absent"] :
        c \in {94, 95, 105, 106},
        m \in {Null, Ratio(2000, 20)},
        r \in {Null, Ratio(29, 1), Ratio(30, 1), Ratio(70, 1), Ratio(71, 1)} }

(* close < SMA_20 * 0.95; a comparison with NaN is False. *)
BelowBand(r) == ~r.sma.null /\ 100 * r.close * r.sma.den < 95 * r.sma.num
(* close > SMA_20 * 1.05 *)
AboveBand(r) == ~r.sma.null /\ 100 * r.close * r.sma.den > 105 * r.sma.num

(* A band test that includes the edges. *)
MeanReversionSignalInclusive(r) ==
    IF ~r.sma.null /\ 100 * r.close * r.sma.den >= 105 * r.sma.num THEN "Sell"
    ELSE IF ~r.sma.null /\ 100 * r.close * r.sma.den <= 95 * r.sma.num THEN "Buy"
    ELSE "Hold"

(* lines 7-9: 'Hold', then 'Buy' where below, then 'Sell' where above *)
MeanReversionSignal(r) ==
    LET s1 == IF BelowBand(r) THEN "Buy" ELSE "Hold"
    IN  IF AboveBand(r) THEN "Sell" ELSE s1

(* lines 12-14 *)
MomentumSignal(r) ==
    LET s1 == IF ~r.rsi.null /\ r.rsi.num < 30 * r.rsi.den THEN "Buy" ELSE "Hold"
    IN  IF ~r.rsi.null /\ r.rsi.num > 70 * r.rsi.den THEN "Sell" ELSE s1

ApplyStrategies(df) ==
    [i \in 1..Len(df) |->
        [df[i] EXCEPT !.mr = MeanReversionSignal(df[i]),
                      !.mom = MomentumSignal(df[i])]]

InitSig ==
    /\ FetchIdle
    /\ ExtrasIdle
    /\ CacheEmpty
    /\ sig_in \in SeqsUpTo(SigRows, MaxSigRows)
    /\ sig_once = <<>> /\ sig_twice = <<>>
    /\ pl_in = <<>> /\ pl_out = <<>>
    /\ ind_in = <<>> /\ ind_out = <<>>

ApplyStrategiesCall ==
    /\ sig_in # <<>> /\ sig_once = <<>>
    /\ sig_once' = ApplyStrategies(sig_in)
    /\ UNCHANGED <<fvars, xvars, cache, clock, calls, pl_in, pl_out, ind_in, ind_out, sig_in, sig_twice>>

(* apply_strategies applied to its own output *)
ApplyStrategiesAgain ==
    /\ sig_once # <<>> /\ sig_twice = <<>>
    /\ sig_twice' = ApplyStrategies(sig_once)
    /\ UNCHANGED <<fvars, xvars, cache, clock, calls, pl_in, pl_out, ind_in, ind_out, sig_in, sig_once>>

NextSig == ApplyStrategiesCall \/ ApplyStrategiesAgain

SpecSig == InitSig /\ [][NextSig]_vars

----------------------------------------------------------------------------
(* data_loader.py: load_file_data *)

(* required_columns of line 92 *)
FileRequiredColumns == {"open", "high", "low", "close", "volume"}

(* Headers an uploaded file may carry. *)
FileColumnSets ==
    { RequiredColumns,
      FileRequiredColumns,
      RequiredColumns \cup {"Adj Close"},
      RequiredColumns \ {"Volume"},
      FileRequiredColumns \ {"volume"},
      (RequiredColumns \ {"Volume"}) \cup {"volume"},
      {"Open", "Close"} }

(* An uploaded file: its name, whether pandas can read it, the table read   *)
(* (rows in file order), and whether the first column parsed as dates.      *)
Files ==
    { [name |-> n, readable |-> r, date_index |-> di,
       table |-> [rows |-> MkRows(ds), tz |-> z, cols |-> cs]] :
        n \in {"upload.csv", "upload.xlsx"}, r \in BOOLEAN, di \in BOOLEAN,
        ds \in {<<>>} \cup SeqsUpTo(1..MaxDay, MaxRows), z \in BOOLEAN,
        cs \in FileColumnSets }

(* The message of line 94 lists all five columns whatever is absent. *)
FileMissingColumnsNames(cols) == FileRequiredColumns

(* raise ValueError(f"Error processing file: {str(e)}"), lines 101-103 *)
FileError(k, ns) == Raised(Wrap(Err(k, ns), {}))

(* load_file_data(uploaded_file), lines 83-103 *)
LoadFileData(f) ==
    IF ~f.readable THEN FileError("ReadError", {})
    ELSE IF ~(FileRequiredColumns \subseteq LowerAll(f.table.cols))
      THEN FileError("MissingColumns", FileMissingColumnsNames(f.table.cols))
    ELSE IF IsEmpty(f.table) THEN FileError("EmptyFile", {})
    ELSE IF ~f.date_index THEN FileError("InvalidIndex", {})
    ELSE Returned(f.table)

InitFile ==
    /\ FetchIdle
    /\ AnalyticsIdle
    /\ PredictIdle
    /\ AppIdle
    /\ CacheEmpty
    /\ file_in \in Files
    /\ file_out = Pending

LoadFileDataCall ==
    /\ file_out = Pending
    /\ file_out' = LoadFileData(file_in)
    /\ UNCHANGED <<fvars, avars, cache, clock, calls>>
    /\ UNCHANGED <<file_in, pred_in, pred_out, session, before, last>>

NextFile == LoadFileDataCall

SpecFile == InitFile /\ [][NextFile]_vars

(* The columns calculate_pl indexes by name (calculations.py lines 7-15)    *)
(* and the one calculate_indicators does (utils_indicators.py lines 8-19):  *)
(* a table without them raises KeyError.                                   *)
PlKeyError(cols) == ~({"open", "high", "low", "close", "volume"} \subseteq cols)
IndicatorsKeyError(cols) == "close" \notin cols

----------------------------------------------------------------------------
(* utils_predictions.py: predict_prices *)

MaxHistory == 6
MaxHorizon == 5

(* The arguments: a table of n rows and the horizon; fails tells whether    *)
(* the collaborator (Prophet) raises on them.  It raises on a history of    *)
(* fewer than two rows.                                                    *)
PredictInputs ==
    { i \in [n : 0..MaxHistory, horizon : (0 - MaxHorizon)..MaxHorizon,
             fails : BOOLEAN] : i.n < 2 => i.fails }

(* model.make_future_dataframe(periods=horizon) followed by                 *)
(* model.predict(future), lines 14-15: the n rows of the history and then   *)
(* one row per future day; no future day for a horizon below one.  A row    *)
(* is represented by its position.                                         *)
FutureDays(h) == IF h >= 0 THEN h ELSE 0
Forecast(n, h) == [i \in 1..(n + FutureDays(h)) |-> i]

(* DataFrame.tail(k): the last k rows; none for k = 0; for k < 0 all rows   *)
(* but the first -k.                                                       *)
TailRows(rows, k) ==
    LET len == Len(rows)
        from == IF k > 0 THEN (IF k >= len THEN 1 ELSE len - k + 1)
                ELSE IF k = 0 THEN len + 1
                ELSE (IF 0 - k >= len THEN len + 1 ELSE 1 - k)
    IN  SubSeq(rows, from, len)

PredictionColumns == {"Date", "Predicted Close", "Lower Bound", "Upper Bound"}

(* predict_prices(data, horizon), lines 5-26 *)
PredictPrices(i) ==
    IF i.fails THEN Raised(Err("CollaboratorError", {}))
    ELSE Returned([rows |-> TailRows(Forecast(i.n, i.horizon), i.horizon),
                   tz |-> FALSE, cols |-> PredictionColumns])

InitPredict ==
    /\ FetchIdle
    /\ AnalyticsIdle
    /\ FileIdle
    /\ AppIdle
    /\ CacheEmpty
    /\ pred_in \in PredictInputs
    /\ pred_out = Pending

PredictPricesCall ==
    /\ pred_out = Pending
    /\ pred_out' = PredictPrices(pred_in)
    /\ UNCHANGED <<fvars, avars, cache, clock, calls>>
    /\ UNCHANGED <<file_in, file_out, pred_in, session, before, last>>

NextPredict == PredictPricesCall

SpecPredict == InitPredict /\ [][NextPredict]_vars

----------------------------------------------------------------------------
(* app.py: st.session_state under the download, upload and clear requests *)

MaxTables == 2

(* A loaded table is represented by its identity; 0 stands for None. *)
TableIds == 1..MaxTables

Symbols == {"", "AAPL", "MSFT"}
AppPeriods == {"1mo", "1y", NoPeriod}
CustomRangeText == "<start_date> to <end_date>"

(* What the loader call of a request does: it raises, returns None or an    *)
(* empty table, or returns table k.                                        *)
LoaderResults ==
    {[kind |-> k, id |-> 0] : k \in {"raise", "none", "empty"}}
      \cup {[kind |-> "table", id |-> k] : k \in TableIds}

(* lines 28-37 *)
InitialSession ==
    [data |-> 0, processed_data |-> 0, symbol |-> "", period |-> "1y"]

InitApp ==
    /\ FetchIdle
    /\ AnalyticsIdle
    /\ FileIdle
    /\ PredictIdle
    /\ CacheEmpty
    /\ session = InitialSession
    /\ before = InitialSession
    /\ last = [kind |-> "start", result |-> "ok"]

AppFrame ==
    /\ UNCHANGED <<fvars, avars, cache, clock, calls>>
    /\ UNCHANGED <<file_in, file_out, pred_in, pred_out>>

(* The button "Download Data", lines 135-158; processed tells whether       *)
(* data_processor.process_stock_data returns.                              *)
Download ==
    \E symbol \in Symbols, p \in AppPeriods, res \in LoaderResults,
       processed \in BOOLEAN :
        /\ before' = session
        /\ IF symbol = ""
             THEN /\ session' = session
                  /\ last' = [kind |-> "download", result |-> "no symbol"]
           ELSE IF res.kind = "raise"
             THEN /\ session' = session
                  /\ last' = [kind |-> "download", result |-> "loader raised"]
           ELSE IF res.kind \in {"none", "empty"}
             THEN /\ session' = session
                  /\ last' = [kind |-> "download", result |-> "no data"]
           ELSE LET loaded == [session EXCEPT
                                 !.data = res.id,
                                 !.symbol = symbol,
                                 !.period = IF Truthy(p) THEN p
                                            ELSE CustomRangeText]
                IN  IF processed
                      THEN /\ session' = [loaded EXCEPT !.processed_data = res.id]
                           /\ last' = [kind |-> "download", result |-> "ok"]
                      ELSE /\ session' = loaded
                           /\ last' = [kind |-> "download",
                                       result |-> "processor raised"]
        /\ AppFrame

(* The button "Process File", lines 168-184 *)
ProcessFile ==
    \E res \in LoaderResults, processed \in BOOLEAN :
        /\ before' = session
        /\ IF res.kind = "raise"
             THEN /\ session' = session
                  /\ last' = [kind |-> "upload", result |-> "loader raised"]
           ELSE IF res.kind \in {"none", "empty"}
             THEN /\ session' = session
                  /\ last' = [kind |-> "upload", result |-> "no data"]
           ELSE LET loaded == [session EXCEPT !.data = res.id]
                IN  IF processed
                      THEN /\ session' = [loaded EXCEPT !.processed_data = res.id]
                           /\ last' = [kind |-> "upload", result |-> "ok"]
                      ELSE /\ session' = loaded
                           /\ last' = [kind |-> "upload",
                                       result |-> "processor raised"]
        /\ AppFrame

(* The button "Clear All Data", lines 87-89, and clear_data, lines 476-481 *)
ClearData ==
    /\ before' = session
    /\ session' = InitialSession
    /\ last' = [kind |-> "clear", result |-> "ok"]
    /\ AppFrame

NextApp == Download \/ ProcessFile \/ ClearData

SpecApp == InitApp /\ [][NextApp]_vars

----------------------------------------------------------------------------
(* Successive calls of the cached fetch functions *)

MaxCalls == 1

CachePeriods == {"1M", "1Y"}
MaxClock == Ttl + Ttl \div 2

(* The entry the wrapper would answer a call with key k from: one stored    *)
(* less than ttl seconds ago.                                              *)
LiveEntries(k) == {e \in cache : e.key = k /\ clock - e.at < Ttl}

InitCache ==
    /\ AnalyticsIdle
    /\ ExtrasIdle
    /\ CacheEmpty
    /\ fn \in CachedFns
    /\ period \in CachePeriods
    /\ start_date = 0
    /\ end_date = 0
    /\ retries \in 1..2
    /\ delay = 2
    /\ pc = "enter"
    /\ attempt = 1
    /\ yf_period = ""
    /\ interval = "1d"
    /\ data = EmptyFrame
    /\ exc = NoErr
    /\ reqs = <<>>
    /\ sleeps = <<>>
    /\ outcome = Pending

(* A further call through the wrapper of @st.cache_data: a live entry for   *)
(* the same function and arguments is returned without running the          *)
(* function; otherwise the function runs.                                  *)
CallThroughCache ==
    /\ pc = "done" /\ calls < MaxCalls
    /\ \E f \in CachedFns, p \in CachePeriods, r \in 1..2 :
         /\ fn' = f /\ period' = p /\ retries' = r
         /\ LET k == [fn |-> f, period |-> p, start_date |-> start_date,
                      end_date |-> end_date, retries |-> r, delay |-> delay]
            IN  IF LiveEntries(k) # {}
                  THEN /\ \E e \in LiveEntries(k) : outcome' = Returned(e.value)
                       /\ pc' = "done"
                  ELSE /\ outcome' = Pending
                       /\ pc' = "enter"
    /\ attempt' = 1 /\ yf_period' = "" /\ interval' = "1d"
    /\ data' = EmptyFrame /\ exc' = NoErr /\ reqs' = <<>> /\ sleeps' = <<>>
    /\ calls' = calls + 1
    /\ UNCHANGED <<start_date, end_date, delay, cache, clock>>
    /\ UNCHANGED <<avars, xvars>>

(* Time passes between two calls. *)
Elapse ==
    /\ pc = "done" /\ clock < MaxClock
    /\ clock' = clock + Ttl \div 2
    /\ UNCHANGED <<fvars, avars, xvars, cache, calls>>

NextCache ==
    \/ LoaderEnter
    \/ YfEnter
    \/ LoaderAttempt(PlainTables)
    \/ LoaderProbe(PlainTables)
    \/ YfAttempt(PlainTables)
    \/ YfFallback1y(PlainTables)
    \/ YfFallback1mo(PlainTables)
    \/ YfNormalize
    \/ Except
    \/ CallThroughCache
    \/ Elapse

SpecCache == InitCache /\ [][NextCache]_vars

----------------------------------------------------------------------------
(* Helpers of the properties *)

Done == pc = "done"

(* The first k requests were attempts 1..k at the requested period and      *)
(* raised; request k+1 was attempt k+1 and answered a table with rows.     *)
TransientThenSuccess(k) ==
    /\ Len(reqs) = k + 1
    /\ \A i \in 1..k :
         reqs[i].kind = "primary" /\ reqs[i].res = "raise" /\ reqs[i].att = i
    /\ reqs[k + 1].kind = "primary" /\ reqs[k + 1].res = "data"
    /\ reqs[k + 1].att = k + 1

(* What a function returns for the answer t when t answers attempt 1. *)
OnFirstAttempt(f, t) ==
    IF f = Yfetch THEN YfNormalizeResults(t) ELSE {SelectAndLower(t)}

InvalidPeriodOutcome ==
    outcome.kind = "raise" /\ outcome.err.kind = "InvalidPeriod"

UpperTokens == {"1D", "5D", "15D", "30D", "1M", "3M", "6M", "YTD", "1Y", "2Y",
                "3Y", "5Y", "MAX"}
LowerSpellings == {"1d", "5d", "15d", "30d", "1mo", "3mo", "6mo", "ytd", "1y",
                   "2y", "3y", "5y", "max"}

ValidCustomRange ==
    start_date # 0 /\ end_date # 0 /\ start_date < end_date /\ end_date <= Now

IsFallback(r) == r.kind \in {"fb1y", "fb1mo"}

PrimaryBefore(i) == Cardinality({j \in 1..(i - 1) : reqs[j].kind = "primary"})

CanonicalColumns == {"open", "high", "low", "close", "volume"}

StrictlyIncreasing(rows) ==
    \A i \in 1..(Len(rows) - 1) : rows[i].d < rows[i + 1].d

(* The required columns no header of cols spells, whatever the case. *)
AbsentColumns(cols) == CanonicalColumns \ LowerAll(cols)

FailedRequest ==
    /\ last.kind \in {"download", "upload"}
    /\ last.result \in {"loader raised", "no data", "processor raised"}

(* The last two requests were an empty answer for the requested period and  *)
(* a probe of the maximal history that answered rows.                      *)
LastProbeFoundData ==
    /\ Len(reqs) >= 2
    /\ reqs[Len(reqs) - 1].kind = "primary" /\ reqs[Len(reqs) - 1].res = "empty"
    /\ reqs[Len(reqs)].kind = "probe" /\ reqs[Len(reqs)].res = "data"

CountRequests(k) == Cardinality({i \in 1..Len(reqs) : reqs[i].kind = k})

(* The call under way was answered by the wrapper from a cache entry: it    *)
(* returned although the function issued no request.                       *)
ServedFromCache == Done /\ outcome.kind = "return" /\ reqs = <<>>

----------------------------------------------------------------------------
(* C1: in each fetch function, when the source raises on the first k        *)
(* attempts (k < retries) and answers a table on attempt k+1, exactly k     *)
(* sleeps have occurred, the i-th lasting delay * 2^(i-1), none after the   *)
(* successful attempt, and the call returns what it returns for that table  *)
(* on a first attempt.                                                     *)
C1_RetryBackoff ==
    Done =>
        \A k \in 0..(retries - 1) :
            TransientThenSuccess(k) =>
                /\ Len(sleeps) = k
                /\ \A i \in 1..k : sleeps[i] = delay * (2 ^ (i - 1))
                /\ outcome.kind = "return"
                /\ outcome.table \in OnFirstAttempt(fn, data)
                /\ outcome.table.cols = CanonicalColumns
                /\ outcome.table.rows = data.rows

C1_Witness ==
    /\ Done /\ TransientThenSuccess(2)
    /\ Len(sleeps) = 2 /\ sleeps[2] = 2 * delay
    /\ outcome.kind = "return"

(* C2 (as claimed): in yfetch.fetch_yfinance_data a fallback request is     *)
(* issued only after all `retries` attempts at the requested period have    *)
(* been made; none precedes the last such attempt.                         *)
C2_FallbackOnlyAfterAllAttempts ==
    fn = Yfetch =>
        \A i \in 1..Len(reqs) :
            IsFallback(reqs[i]) => PrimaryBefore(i) = retries

(* C3 (as claimed): when some attempt or fallback answers a table with      *)
(* rows, the caller receives the first such answer; when every attempt and  *)
(* fallback answers empty, the call ends in a raised no-data error and      *)
(* never in a normal return of a table.  (The requirement that the error    *)
(* names the symbol and the period is left out of the formula: the model    *)
(* records it in outcome.err.names.)                                       *)
AllEmpty ==
    /\ Len(reqs) > 0
    /\ \A i \in 1..Len(reqs) : reqs[i].kind # "probe" => reqs[i].res = "empty"

SomeData == \E i \in 1..Len(reqs) : reqs[i].kind # "probe" /\ reqs[i].res = "data"

C3_FirstNonEmptyOrNoDataError ==
    Done =>
        /\ SomeData =>
             outcome.kind = "return" /\ outcome.table \in OnFirstAttempt(fn, data)
        /\ AllEmpty =>
             outcome.kind = "raise" /\ outcome.err.kind = "NoData"

(* C4 (as claimed): every table yfetch.fetch_yfinance_data returns after    *)
(* normalization has a strictly increasing, timezone-naive index and        *)
(* exactly the columns open, high, low, close, volume.                     *)
C4_NormalizedSchema ==
    (Done /\ fn = Yfetch /\ outcome.kind = "return" /\ ~IsEmpty(outcome.table)) =>
        /\ StrictlyIncreasing(outcome.table.rows)
        /\ ~outcome.table.tz
        /\ outcome.table.cols = CanonicalColumns

(* C9 (as claimed): for period Custom, unless start_date < end_date <= now *)
(* (both given), a fetch function performs no network request and the call  *)
(* ends in a raised error.                                                 *)
C9_CustomRangeValidated ==
    (period = "Custom" /\ ~ValidCustomRange) =>
        /\ reqs = <<>>
        /\ Done => outcome.kind = "raise"

(* C10 (as claimed): each fetch function accepts exactly the tokens of the  *)
(* enumerated set: none of them ends in an invalid-period error and every   *)
(* other token does.                                                       *)
C10_ExactlyTheEnumeratedTokens ==
    Done => (InvalidPeriodOutcome <=> period \notin SpecTokens)

(* C10 (amended): the 13 upper-case tokens 1D..MAX are resolved by every    *)
(* fetch function; a call ends in an invalid-period error exactly when      *)
(*  - load_yfinance_data: the token is none of the 13 and not Custom;       *)
(*  - utils_yfetch: a token is given, start and end are not both given and  *)
(*    the token is none of the 13 (Custom and real-time included);          *)
(*  - yfetch: start and end are not both given and the token is none of the *)
(*    13, their lower-case spellings, 10y, real-time or Custom.             *)
C10_TokensPerFunction ==
    Done =>
        (InvalidPeriodOutcome <=>
            IF fn = Loader THEN period \notin UpperTokens \cup {"Custom"}
            ELSE IF fn = Utils
              THEN period # NoPeriod /\ ~BothDates /\ period \notin UpperTokens
            ELSE /\ ~BothDates
                 /\ period \notin UpperTokens \cup LowerSpellings
                                   \cup {"10y", "real-time", "Custom"})

C10_Witness ==
    /\ Done /\ fn = Yfetch /\ period = "10y" /\ outcome.kind = "return"
    /\ ~IsEmpty(outcome.table)

(* C5: calculate_pl returns one row per input row in the same order, P/L    *)
(* Value is close - open on every row, and Anomaly Flag is true exactly     *)
(* when |z| > 2 for the % P/L column or for the volume column, z being      *)
(* (value - mean) / sample standard deviation of the column; for one row    *)
(* the z-scores are NaN and the flag is false.  |z| > 2 is stated as        *)
(* (n*v - S)^2 * (n-1) > 4 * sum_j (n*v_j - S)^2.                          *)
Deviations(col) == [j \in 1..Len(col) |-> Len(col) * col[j] - Sum(col)]

FarFromMean(col, i) ==
    /\ Len(col) >= 2
    /\ Deviations(col)[i] * Deviations(col)[i] * (Len(col) - 1)
         > 4 * Sum(Squares(Deviations(col)))

PctColumn == [j \in 1..Len(pl_out) |-> pl_out[j].pct]
VolumeColumn == [j \in 1..Len(pl_in) |-> pl_in[j].volume]

C5_ProfitLossAndAnomaly ==
    pl_out # <<>> =>
        /\ Len(pl_out) = Len(pl_in)
        /\ \A i \in 1..Len(pl_in) :
             /\ pl_out[i].open = pl_in[i].open
             /\ pl_out[i].close = pl_in[i].close
             /\ pl_out[i].volume = pl_in[i].volume
             /\ pl_out[i].pl = pl_in[i].close - pl_in[i].open
             /\ pl_out[i].flag <=>
                  (FarFromMean(PctColumn, i) \/ FarFromMean(VolumeColumn, i))
        /\ Len(pl_in) = 1 =>
             pl_out[1].zpl.nan /\ pl_out[1].zvol.nan /\ ~pl_out[1].flag

(* A six-row series whose last row is flagged for its volume only, and a    *)
(* one-row series.                                                         *)
C5_Witness ==
    /\ Len(pl_out) = MaxPLRows
    /\ pl_out[MaxPLRows].flag
    /\ ~FarFromMean(PctColumn, MaxPLRows)
    /\ \A i \in 1..(MaxPLRows - 1) : ~pl_out[i].flag

(* C6: apply_strategies labels each row from that row alone:                *)
(* Mean_Reversion_Signal is Buy iff close < SMA_20*0.95, Sell iff           *)
(* close > SMA_20*1.05, else Hold; Momentum_Signal is Buy iff RSI_14 < 30,  *)
(* Sell iff RSI_14 > 70, else Hold; a null indicator gives Hold; the Buy    *)
(* and Sell conditions of one strategy never hold together; and a second    *)
(* application to the output leaves the signals as they are.               *)
SmaOf(i) == sig_in[i].sma
RsiOf(i) == sig_in[i].rsi

C6_Signals ==
    /\ sig_once # <<>> =>
         /\ Len(sig_once) = Len(sig_in)
         /\ \A i \in 1..Len(sig_in) :
              LET buyMR == ~SmaOf(i).null
                           /\ 100 * sig_in[i].close * SmaOf(i).den < 95 * SmaOf(i).num
                  sellMR == ~SmaOf(i).null
                            /\ 100 * sig_in[i].close * SmaOf(i).den > 105 * SmaOf(i).num
                  buyMo == ~RsiOf(i).null /\ RsiOf(i).num < 30 * RsiOf(i).den
                  sellMo == ~RsiOf(i).null /\ RsiOf(i).num > 70 * RsiOf(i).den
              IN  /\ sig_once[i].mr = "Buy" <=> buyMR
                  /\ sig_once[i].mr = "Sell" <=> sellMR
                  /\ sig_once[i].mr = "Hold" <=> (~buyMR /\ ~sellMR)
                  /\ sig_once[i].mom = "Buy" <=> buyMo
                  /\ sig_once[i].mom = "Sell" <=> sellMo
                  /\ sig_once[i].mom = "Hold" <=> (~buyMo /\ ~sellMo)
                  /\ ~(buyMR /\ sellMR) /\ ~(buyMo /\ sellMo)
                  /\ SmaOf(i).null => sig_once[i].mr = "Hold"
                  /\ RsiOf(i).null => sig_once[i].mom = "Hold"
                  /\ sig_once[i].close = sig_in[i].close
    /\ sig_twice # <<>> => sig_twice = sig_once

(* Two rows, one on the lower edge of the band (Hold) and one below it      *)
(* (Buy), with a null RSI and an RSI above 70, applied twice.              *)
C6_Witness ==
    /\ Len(sig_twice) = 2
    /\ sig_in[1].close = 95 /\ sig_once[1].mr = "Hold" /\ RsiOf(1).null
    /\ sig_in[2].close = 94 /\ sig_once[2].mr = "Buy" /\ sig_once[2].mom = "Sell"
    /\ sig_twice[2].mom = "Sell"

(* C7: in calculate_indicators SMA_20 is null on each of the first 19 rows  *)
(* and on every later row equals the arithmetic mean of the 20 closes       *)
(* ending at that row; the output has one row per input row.  (Rows are     *)
(* numbered from 1 here: row i >= 20 averages close[i-19..i].)              *)
C7_Sma20 ==
    ind_out # <<>> =>
        /\ Len(ind_out) = Len(ind_in)
        /\ \A i \in 1..Len(ind_in) :
             /\ i <= 19 => ind_out[i].sma.null
             /\ i >= 20 =>
                  /\ ~ind_out[i].sma.null
                  /\ 20 * ind_out[i].sma.num
                       = ind_out[i].sma.den
                         * Sum([j \in 1..20 |-> ind_in[i - 20 + j]])

(* A series of 21 rows with a step inside the last window. *)
C7_Witness ==
    /\ Len(ind_out) = 21
    /\ ind_out[19].sma.null /\ ~ind_out[20].sma.null
    /\ ind_out[20].sma.num # ind_out[21].sma.num

(* C8 (as claimed): on every row whose trailing 14-sample average loss is   *)
(* exactly 0, RSI_14 equals 100, also when the average gain is 0 too.       *)
C8_RsiSaturates ==
    ind_out # <<>> =>
        \A i \in 14..Len(ind_in) :
            Sum([j \in 1..14 |-> LossColumn(ind_in)[i - 14 + j]]) = 0 =>
                /\ ~ind_out[i].rsi.null
                /\ ind_out[i].rsi.num = 100 * ind_out[i].rsi.den

(* C11 (as claimed): when the table of an uploaded file lacks some of the   *)
(* five required columns, compared case-insensitively, load_file_data      *)
(* fails with a missing-columns error that names exactly the absent        *)
(* columns.                                                                *)
C11_MissingColumnsNamed ==
    (file_out.kind # "pending" /\ file_in.readable
       /\ AbsentColumns(file_in.table.cols) # {}) =>
        /\ file_out.kind = "raise"
        /\ file_out.err.kind = "MissingColumns"
        /\ file_out.err.names = AbsentColumns(file_in.table.cols)

(* C12 (as claimed): every table load_file_data returns has the canonical   *)
(* schema of yfetch's output (exactly the five lower-case columns, dates    *)
(* strictly increasing, no timezone), so that calculate_pl and              *)
(* calculate_indicators find the columns they index.                       *)
C12_FileSchemaCanonical ==
    file_out.kind = "return" =>
        /\ file_out.table.cols = CanonicalColumns
        /\ StrictlyIncreasing(file_out.table.rows)
        /\ ~file_out.table.tz
        /\ ~PlKeyError(file_out.table.cols)
        /\ ~IndicatorsKeyError(file_out.table.cols)

(* C13 (as claimed): predict_prices returns a table only for a horizon of   *)
(* at least one, and then exactly the last `horizon` rows of the            *)
(* collaborator's output; for a horizon below one it ends in an error,      *)
(* never in a returned table.  (The kind of the error is left open here:    *)
(* the claim asks for an invalid-horizon error.)                           *)
C13_HorizonValidated ==
    pred_out.kind # "pending" =>
        IF pred_in.horizon >= 1
          THEN pred_out.kind = "return" =>
                 /\ Len(pred_out.table.rows) = pred_in.horizon
                 /\ \A j \in 1..pred_in.horizon :
                      pred_out.table.rows[j] = pred_in.n + j
          ELSE pred_out.kind = "raise"

(* C14 (as claimed): a download or file-processing request that fails (the  *)
(* loader raises or returns nothing, or process_stock_data raises) leaves   *)
(* session_state.data, processed_data, symbol and period as they were       *)
(* before the request.                                                     *)
C14_FailedRequestKeepsSession ==
    FailedRequest => session = before

(* C15 (as claimed): in load_yfinance_data, when the last attempt got an    *)
(* empty table for the requested period and its probe of the maximal        *)
(* history got rows, the error the caller receives mentions the available   *)
(* date range.                                                             *)
C15_ErrorCarriesAvailableRange ==
    (Done /\ fn = Loader /\ LastProbeFoundData) =>
        /\ outcome.kind = "raise"
        /\ "available range" \in outcome.err.names

(* C16 (as claimed): within one call of yfetch.fetch_yfinance_data each     *)
(* fallback request (1y, 1mo) is issued at most once over all attempts,     *)
(* and never for the period the call has already requested.                *)
C16_FallbackOnceAndDifferent ==
    fn = Yfetch =>
        /\ CountRequests("fb1y") <= 1
        /\ CountRequests("fb1mo") <= 1
        /\ \A i \in 1..Len(reqs) :
             IsFallback(reqs[i]) =>
                 \A j \in 1..(i - 1) :
                     reqs[j].kind = "primary" => reqs[j].per # reqs[i].per

(* C17 (as claimed): in calculate_indicators RSI_14 is null on each of the  *)
(* first 14 rows of every input series, and MACD and MACD_Signal are        *)
(* non-null on every row.                                                  *)
C17_RsiWarmUpAndMacd ==
    ind_out # <<>> =>
        \A i \in 1..Len(ind_in) :
            /\ i <= 14 => ind_out[i].rsi.null
            /\ ~ind_out[i].macd_null
            /\ ~ind_out[i].macd_signal_null

(* C18 (as claimed): a call that ends in an invalid-period or invalid-range *)
(* error has evaluated its arguments once: no backoff sleep has occurred    *)
(* and no second attempt was made.                                         *)
C18_InvalidInputNotRetried ==
    (Done /\ outcome.kind = "raise"
       /\ outcome.err.kind \in {"InvalidPeriod", "InvalidRange"}) =>
        /\ sleeps = <<>>
        /\ attempt = 1

(* C19 (as claimed): a call that ended with all attempts and fallbacks      *)
(* exhausted leaves nothing in the cache, so no later call is answered      *)
(* from the cache with the empty result of an exhausted call: what the      *)
(* cache hands out is a table with rows.                                   *)
C19_NoFailureServedFromCache ==
    ServedFromCache => ~IsEmpty(outcome.table)

====
